---- MODULE Spec2Model ----
(***************************************************************************)
(* Model of the experience-storage layer of yadrl                          *)
(* (src/yadrl/common/memory.py): RingBuffer, a fixed-capacity store for    *)
(* one field, and ReplayMemory, five RingBuffers advanced together, with   *)
(* uniform and combined sampling.                                          *)
(*                                                                         *)
(* A numpy array of shape (capacity,) + (dimension,) is a sequence of      *)
(* `capacity` rows, each a sequence of `dimension` numbers.  Python's      *)
(* 0-based index i is position i + 1 of a TLA+ sequence.  A call's outcome *)
(* is a record: the object after the call (an exception does not undo the  *)
(* assignments made before it), the exception raised ("none" when the call *)
(* returned) and the value returned.                                       *)
(***************************************************************************)
EXTENDS Integers, Sequences, FiniteSets, TLC

\* ------------------------------------------------------------------ bounds
MaxCap == 2
\* largest capacity a buffer is constructed with
MaxAdds == 3
\* add calls made on one RingBuffer, push calls on one ReplayMemory
MaxRaises == 1
\* push calls on one ReplayMemory that raise
MaxBatch == 2
\* largest batch_size passed to ReplayMemory.sample
MaxCalls == 4
\* get_transition calls made on one Rollout
MaxMems == 2
\* ReplayMemory objects constructed in one process
MaxAtoms == 3
\* largest atoms_dim of a categorical DQN
MaxReward == 3
\* rewards of a batch row range over -MaxReward..MaxReward
ProbScale == 4
\* atom probabilities are multiples of 1 / ProbScale
MaxFreq == 3
\* largest policy_update_frequency of an agent
MaxOptim == 2
\* update calls made on a SAC or TD3 agent
MaxLoads == 1
\* load calls made on a DQN agent after its construction

VARIABLES
    rb,        \* a RingBuffer object: _size, _capacity, _dimension, _container
    rbRet,     \* outcome of the last call made on rb
    rbAdds,    \* number of add calls made on rb
    mem,       \* a ReplayMemory object: _capacity, _combined and five RingBuffers
    memRet,    \* outcome of the last call made on mem
    added,     \* per field buffer of mem: the rows its add calls stored, oldest
               \* first, cut to the last _capacity of them
    nAdded,    \* per field buffer of mem: number of add calls that stored a row
    addRaised, \* per field buffer of mem: has one of its add calls raised
    pushes,    \* number of push calls made on mem
    raises,    \* number of push calls on mem that raised
    roll,      \* a Rollout object: _size, _capacity, _discount_factor, three RingBuffers
    rollRet,   \* outcome of the last call made on roll
    rollLog,   \* get_transition, push and reset calls made on roll, and the entries pushed since
               \* the last reset, oldest first, cut to the last _capacity
    heap,      \* the numpy arrays alive, by address
    hmem,      \* a ReplayMemory whose buffers hold the address of their container
    held,      \* the Batch a caller keeps from an earlier sample: five array references
    heldLog,   \* the values of that Batch when it was returned, and the pushes
               \* made since: how many, and whether one appended and one rolled
    TORCH_BACKEND,  \* the class attribute RingBuffer.TORCH_BACKEND
    mems,      \* the ReplayMemory objects constructed so far, each with the
               \* torch_backend argument it was constructed with
    backRet,   \* outcome of the last sample call made on one of mems
    cmem,      \* a ReplayMemory shared by a pushing and a sampling thread
    pushing,   \* the push call in progress: its transition, the number of its
               \* add calls that have returned and the branch of the add call it
               \* is in, once that call's first statement has run
    sampling,  \* the sample call in progress: its next statement, its indices
               \* and the arrays it has read
    concRet,   \* outcome of the sampling thread's last sample call
    concPushes, \* push calls started on cmem
    proj,      \* one batch row of the categorical projection: its inputs and,
               \* once the row is projected, its target_probs
    agent,     \* a DDPG agent: its frequencies, its _env_step, the size of its
               \* replay memory and what its last update call did
    agentLog,  \* whose turn it is in the loop and the update calls made
    dqn,       \* a DQN agent: its parameter sets by address, its two networks,
               \* its epsilon scheduler and what its last call did
    dqnLog,    \* _update calls made on dqn, and how many since its target
               \* network was last made equal to the live one
    critic,    \* a SAC or TD3 agent: its thresholds, the parameters and
               \* gradients of its parameter groups, the optimizer steps of its
               \* last update call
    nets       \* the networks of the agent constructed last: its parameter
               \* sets by address, its live networks and their targets

rbVars == <<rb, rbRet, rbAdds>>
memVars == <<mem, memRet, added, nAdded, addRaised, pushes, raises>>
rollVars == <<roll, rollRet, rollLog>>
aliasVars == <<heap, hmem, held, heldLog>>
backVars == <<TORCH_BACKEND, mems, backRet>>
concVars == <<cmem, pushing, sampling, concRet, concPushes>>
vars == <<rbVars, memVars, rollVars, aliasVars, backVars, concVars, proj, agent, agentLog,
          dqn, dqnLog, critic, nets>>
\* what the actions of one component leave alone
exceptRing == <<memVars, rollVars, aliasVars, backVars, concVars, proj, agent, agentLog, dqn, dqnLog, critic, nets>>
exceptMem == <<rbVars, rollVars, aliasVars, backVars, concVars, proj, agent, agentLog, dqn, dqnLog, critic, nets>>
exceptRollout == <<rbVars, memVars, aliasVars, backVars, concVars, proj, agent, agentLog, dqn, dqnLog, critic, nets>>
exceptAlias == <<rbVars, memVars, rollVars, backVars, concVars, proj, agent, agentLog, dqn, dqnLog, critic, nets>>
exceptBackend == <<rbVars, memVars, rollVars, aliasVars, concVars, proj, agent, agentLog, dqn, dqnLog, critic, nets>>
exceptThreads == <<rbVars, memVars, rollVars, aliasVars, backVars, proj, agent, agentLog, dqn, dqnLog, critic, nets>>
exceptProjection == <<rbVars, memVars, rollVars, aliasVars, backVars, concVars, agent, agentLog, dqn, dqnLog, critic, nets>>
exceptAgent == <<rbVars, memVars, rollVars, aliasVars, backVars, concVars, proj, dqn, dqnLog, critic, nets>>
exceptDQN == <<rbVars, memVars, rollVars, aliasVars, backVars, concVars, proj, agent, agentLog, critic, nets>>
exceptClip == <<rbVars, memVars, rollVars, aliasVars, backVars, concVars, proj, agent, agentLog,
                dqn, dqnLog, nets>>
exceptTargets == <<rbVars, memVars, rollVars, aliasVars, backVars, concVars, proj, agent, agentLog,
                   dqn, dqnLog, critic>>

\* ------------------------------------------------------------- numpy helpers
\* all sequences over S of length lo..hi
SeqsOf(S, lo, hi) == UNION {[1..n -> S] : n \in lo..hi}

\* np.zeros((capacity,) + (dimension,))
Zeros(capacity, dimension) == [i \in 1..capacity |-> [j \in 1..dimension |-> 0]]

\* numpy broadcasting of a one-dimensional value into a row of `dimension`
\* numbers: the lengths agree, or the value has length one
Broadcastable(value, dimension) == Len(value) = dimension \/ Len(value) = 1

Broadcast(value, dimension) ==
    [j \in 1..dimension |-> IF Len(value) = 1 THEN value[1] ELSE value[j]]

\* np.roll(container, -1, 0): row i moves to row i - 1, row 0 to the end
Roll(container) ==
    [i \in 1..Len(container) |-> container[(i % Len(container)) + 1]]

\* container[idx] for a list idx of Python indices: an index outside
\* [-capacity, capacity) raises IndexError, a negative one counts from the end
IndexInBounds(container, i) == -Len(container) <= i /\ i < Len(container)

Row(container, i) ==
    IF i >= 0 THEN container[i + 1] ELSE container[Len(container) + i + 1]

Take(container, idx) ==
    IF \A k \in 1..Len(idx) : IndexInBounds(container, idx[k])
    THEN [raised |-> "none", value |-> [k \in 1..Len(idx) |-> Row(container, idx[k])]]
    ELSE [raised |-> "IndexError", value |-> <<>>]

\* ---------------------------------------------------------------- RingBuffer
\* RingBuffer.__init__
RingBuffer(capacity, dimension) ==
    [size |-> 0, capacity |-> capacity, dimension |-> dimension,
     container |-> Zeros(capacity, dimension)]

\* RingBuffer.add with the size test of the first branch off by one
RingBuffer_add_grows(self, value) ==
    IF ~Broadcastable(value, self.dimension)
    THEN [self |-> self, raised |-> "ValueError", branch |-> "assign"]
    ELSE IF self.size < self.capacity
    THEN [self |-> [self EXCEPT !.container[self.size + 1] =
                                    Broadcast(value, self.dimension),
                                !.size = self.size + 1],
          raised |-> "none", branch |-> "append"]
    ELSE IF self.size = self.capacity
    THEN [self |-> [self EXCEPT !.container =
                        [Roll(self.container) EXCEPT ![self.capacity] =
                            Broadcast(value, self.dimension)],
                                !.size = self.size + 1],
          raised |-> "none", branch |-> "roll"]
    ELSE [self |-> self, raised |-> "ValueError", branch |-> "else"]

\* RingBuffer.add with the size of a full buffer starting over at one row
RingBuffer_add_wrap(self, value) ==
    IF ~Broadcastable(value, self.dimension)
    THEN [self |-> self, raised |-> "ValueError", branch |-> "assign"]
    ELSE IF self.size < self.capacity
    THEN [self |-> [self EXCEPT !.container[self.size + 1] =
                                    Broadcast(value, self.dimension),
                                !.size = self.size + 1],
          raised |-> "none", branch |-> "append"]
    ELSE [self |-> [self EXCEPT !.container[1] =
                                    Broadcast(value, self.dimension),
                                !.size = 1],
          raised |-> "none", branch |-> "roll"]

\* RingBuffer.add.  `branch` names the statement the call ended in: "append"
\* and "roll" for the two writing branches, "assign" when the row assignment
\* raised numpy's ValueError for a value that does not broadcast, "else" for
\* the `raise ValueError` of the last branch.
RingBuffer_add(self, value) ==
    IF self.size < self.capacity
    THEN IF Broadcastable(value, self.dimension)
         THEN [self |-> [self EXCEPT !.container[self.size + 1] =
                                         Broadcast(value, self.dimension),
                                     !.size = self.size + 1],
               raised |-> "none", branch |-> "append"]
         ELSE [self |-> self, raised |-> "ValueError", branch |-> "assign"]
    ELSE IF self.size = self.capacity
    THEN LET rolled == [self EXCEPT !.container = Roll(self.container)]
         IN  IF Broadcastable(value, self.dimension)
             THEN [self |-> [rolled EXCEPT !.container[self.capacity] =
                                               Broadcast(value, self.dimension)],
                   raised |-> "none", branch |-> "roll"]
             ELSE [self |-> rolled, raised |-> "ValueError", branch |-> "assign"]
    ELSE [self |-> self, raised |-> "ValueError", branch |-> "else"]

\* RingBuffer.sample (numpy backend): the rows at idx, copied
RingBuffer_sample(self, idx) == Take(self.container, idx)

\* RingBuffer.reset: a fresh container of zeros; _size is not assigned
RingBuffer_reset(self) ==
    [self EXCEPT !.container = Zeros(self.capacity, self.dimension)]

\* RingBuffer.size
RingBuffer_size(self) == self.size

\* ------------------------------------------------------------------- inputs
Capacities == 1..MaxCap
Dimensions == {1, 2}
Numbers == {1, 2}
\* values handed to add: one-dimensional arrays of one to three numbers, so
\* that every dimension has values that fit, that broadcast and that do not
AddValues == SeqsOf(Numbers, 1, 2) \cup {<<1, 1, 1>>}
\* index lists handed to RingBuffer.sample: none, one or two indices, in and
\* out of every buffer's range
SampleIndices == SeqsOf(-(MaxCap + 1)..(MaxCap + 1), 0, 2)

NoCall == [op |-> "init", raised |-> "none"]

\* ------------------------------------------------- RingBuffer state machine
InitRing ==
    /\ \E capacity \in Capacities, dimension \in Dimensions :
           rb = RingBuffer(capacity, dimension)
    /\ rbRet = NoCall
    /\ rbAdds = 0

Add ==
    /\ rbAdds < MaxAdds
    /\ \E value \in AddValues :
           LET r == RingBuffer_add(rb, value)
           IN  /\ rb' = r.self
               /\ rbRet' = [op |-> "add", raised |-> r.raised, branch |-> r.branch]
    /\ rbAdds' = rbAdds + 1
    /\ UNCHANGED exceptRing

Sample ==
    /\ \E idx \in SampleIndices :
           LET r == RingBuffer_sample(rb, idx)
           IN  rbRet' = [op |-> "sample", raised |-> r.raised, idx |-> idx,
                         batch |-> r.value]
    /\ UNCHANGED <<rb, rbAdds>>
    /\ UNCHANGED exceptRing

Reset ==
    /\ rb' = RingBuffer_reset(rb)
    /\ rbRet' = [op |-> "reset", raised |-> "none"]
    /\ UNCHANGED rbAdds
    /\ UNCHANGED exceptRing

NextRing == Add \/ Sample \/ Reset


\* --------------------------------------------------------------- ReplayMemory
\* the five field buffers, in the order push fills them and Batch names them
Fields == <<"state_buffer", "action_buffer", "reward_buffer",
            "next_state_buffer", "terminal_buffer">>

\* ReplayMemory.__init__
ReplayMemory(capacity, state_dim, action_dim, combined) ==
    [capacity |-> capacity, combined |-> combined,
     state_buffer |-> RingBuffer(capacity, state_dim),
     action_buffer |-> RingBuffer(capacity, action_dim),
     reward_buffer |-> RingBuffer(capacity, 1),
     next_state_buffer |-> RingBuffer(capacity, state_dim),
     terminal_buffer |-> RingBuffer(capacity, 1)]

\* ReplayMemory.size
ReplayMemory_size(self) == RingBuffer_size(self.state_buffer)

\* ReplayMemory.push: five add calls in a row; the first one that raises ends
\* the call, and the adds made before it stay made.  `calls` is the number of
\* add calls made.
ReplayMemory_push(self, state, action, reward, next_state, terminal) ==
    LET a1 == RingBuffer_add(self.state_buffer, state)
        s1 == [self EXCEPT !.state_buffer = a1.self]
        a2 == RingBuffer_add(s1.action_buffer, action)
        s2 == [s1 EXCEPT !.action_buffer = a2.self]
        a3 == RingBuffer_add(s2.reward_buffer, reward)
        s3 == [s2 EXCEPT !.reward_buffer = a3.self]
        a4 == RingBuffer_add(s3.next_state_buffer, next_state)
        s4 == [s3 EXCEPT !.next_state_buffer = a4.self]
        a5 == RingBuffer_add(s4.terminal_buffer, terminal)
        s5 == [s4 EXCEPT !.terminal_buffer = a5.self]
    IN  IF a1.raised # "none" THEN [self |-> s1, raised |-> a1.raised, calls |-> 1]
        ELSE IF a2.raised # "none" THEN [self |-> s2, raised |-> a2.raised, calls |-> 2]
        ELSE IF a3.raised # "none" THEN [self |-> s3, raised |-> a3.raised, calls |-> 3]
        ELSE IF a4.raised # "none" THEN [self |-> s4, raised |-> a4.raised, calls |-> 4]
        ELSE [self |-> s5, raised |-> a5.raised, calls |-> 5]

\* np.random.randint(high, size=n): the set of its possible outcomes.  A
\* negative size raises; size 0 gives the empty array whatever `high` is; a
\* positive size raises when high <= 0 and otherwise draws n indices from
\* [0, high), with replacement.
Randint(high, n) ==
    IF n < 0 THEN {[raised |-> "ValueError", value |-> <<>>]}
    ELSE IF n = 0 THEN {[raised |-> "none", value |-> <<>>]}
    ELSE IF high <= 0 THEN {[raised |-> "ValueError", value |-> <<>>]}
    ELSE {[raised |-> "none", value |-> idxs] : idxs \in [1..n -> 0..(high - 1)]}

\* the Batch built from index list idxs: the five RingBuffer.sample results,
\* or the exception of the first of them that raises
Gather(self, idxs) ==
    LET st == RingBuffer_sample(self.state_buffer, idxs)
        ac == RingBuffer_sample(self.action_buffer, idxs)
        rw == RingBuffer_sample(self.reward_buffer, idxs)
        ns == RingBuffer_sample(self.next_state_buffer, idxs)
        dn == RingBuffer_sample(self.terminal_buffer, idxs)
    IN  IF st.raised # "none" THEN [raised |-> st.raised, idxs |-> idxs]
        ELSE IF ac.raised # "none" THEN [raised |-> ac.raised, idxs |-> idxs]
        ELSE IF rw.raised # "none" THEN [raised |-> rw.raised, idxs |-> idxs]
        ELSE IF ns.raised # "none" THEN [raised |-> ns.raised, idxs |-> idxs]
        ELSE IF dn.raised # "none" THEN [raised |-> dn.raised, idxs |-> idxs]
        ELSE [raised |-> "none", idxs |-> idxs,
              batch |-> [state |-> st.value, action |-> ac.value,
                         reward |-> rw.value, next_state |-> ns.value,
                         done |-> dn.value]]

\* ReplayMemory.sample, given the outcome `drawn` of its np.random.randint
\* call: in combined mode one index fewer is drawn and size - 1 is appended
ReplayMemory_sample(self, batch_size, drawn) ==
    IF drawn.raised # "none"
    THEN [raised |-> drawn.raised, idxs |-> <<>>]
    ELSE Gather(self, IF self.combined
                      THEN Append(drawn.value, ReplayMemory_size(self) - 1)
                      ELSE drawn.value)

\* the size argument of the randint call, without the decrement of combined
\* mode
DrawCount_nodec(self, batch_size) == batch_size

\* the size argument of the randint call of ReplayMemory.sample
DrawCount(self, batch_size) ==
    IF self.combined THEN batch_size - 1 ELSE batch_size

\* the bound of the randint call taken as the whole of [0, size)
DrawHigh_all(self) == ReplayMemory_size(self)

\* the exclusive upper bound of the randint call of ReplayMemory.sample
DrawHigh(self) == ReplayMemory_size(self) - 1

\* ------------------------------------------------------------------- inputs
BatchSizes == 0..MaxBatch
\* state and action dimensions a ReplayMemory is constructed with
StateDims == {2}
ActionDims == {1}

\* one-dimensional array of n copies of v
Fill(v, n) == [j \in 1..n |-> v]

\* transitions handed to push.  Field k of the transition numbered v has the
\* shape of its buffer, except field `bad` (none when bad = 0), which is one
\* number too long.
Transition(self, v, bad) ==
    [state |-> Fill(v, self.state_buffer.dimension + (IF bad = 1 THEN 1 ELSE 0)),
     action |-> Fill(v, self.action_buffer.dimension + (IF bad = 2 THEN 1 ELSE 0)),
     reward |-> Fill(v, IF bad = 3 THEN 2 ELSE 1),
     next_state |-> Fill(v, self.next_state_buffer.dimension
                              + (IF bad = 4 THEN 1 ELSE 0)),
     terminal |-> Fill(v % 2, IF bad = 5 THEN 2 ELSE 1)]

\* -------------------------------------------------------------- bookkeeping
\* the last n elements of sequence s
Last(s, n) == IF Len(s) <= n THEN s ELSE SubSeq(s, Len(s) - n + 1, Len(s))

FieldIndex == 1..Len(Fields)

\* the value push hands to the add of field k
FieldValue(t, k) ==
    CASE k = 1 -> t.state [] k = 2 -> t.action [] k = 3 -> t.reward
      [] k = 4 -> t.next_state [] k = 5 -> t.terminal

\* field k's add call of a push that made `calls` add calls and raised or not
\* stored a row exactly when it was made and was not the one that raised
Stored(k, calls, raised) == k < calls \/ (k = calls /\ raised = "none")

\* ----------------------------------------------- ReplayMemory state machine
InitMem ==
    /\ \E capacity \in Capacities, state_dim \in StateDims,
          action_dim \in ActionDims, combined \in BOOLEAN :
           mem = ReplayMemory(capacity, state_dim, action_dim, combined)
    /\ memRet = NoCall
    /\ added = [k \in FieldIndex |-> <<>>]
    /\ nAdded = [k \in FieldIndex |-> 0]
    /\ addRaised = [k \in FieldIndex |-> FALSE]
    /\ pushes = 0
    /\ raises = 0

Push ==
    /\ pushes < MaxAdds
    /\ \E v \in Numbers, bad \in 0..Len(Fields) :
           LET t == Transition(mem, v, bad)
               r == ReplayMemory_push(mem, t.state, t.action, t.reward,
                                      t.next_state, t.terminal)
           IN  /\ mem' = r.self
               /\ raises + (IF r.raised = "none" THEN 0 ELSE 1) <= MaxRaises
               /\ raises' = raises + (IF r.raised = "none" THEN 0 ELSE 1)
               /\ memRet' = [op |-> "push", raised |-> r.raised]
               /\ added' = [k \in FieldIndex |->
                               IF Stored(k, r.calls, r.raised)
                               THEN Last(Append(added[k],
                                                Broadcast(FieldValue(t, k),
                                                          mem[Fields[k]].dimension)),
                                         mem.capacity)
                               ELSE added[k]]
               /\ nAdded' = [k \in FieldIndex |->
                               IF Stored(k, r.calls, r.raised)
                               THEN nAdded[k] + 1 ELSE nAdded[k]]
               /\ addRaised' = [k \in FieldIndex |->
                               addRaised[k] \/ (k = r.calls /\ r.raised # "none")]
    /\ pushes' = pushes + 1
    /\ UNCHANGED exceptMem

SampleBatch ==
    /\ \E batch_size \in BatchSizes :
         \E drawn \in Randint(DrawHigh(mem), DrawCount(mem, batch_size)) :
           LET r == ReplayMemory_sample(mem, batch_size, drawn)
           IN  memRet' = [op |-> "sample", batch_size |-> batch_size] @@ r
    /\ UNCHANGED <<mem, added, nAdded, addRaised, pushes, raises>>
    /\ UNCHANGED exceptMem

NextMem == Push \/ SampleBatch

\* -------------------------------------------------------------------- Rollout
\* a discount factor num / den; Python floats are modelled as exact fractions
Discounts == {[num |-> 1, den |-> 2], [num |-> 1, den |-> 1]}

RECURSIVE Pow(_, _)
Pow(b, e) == IF e = 0 THEN 1 ELSE b * Pow(b, e - 1)

\* Rollout.__init__
Rollout(capacity, state_dim, action_dim, discount_factor) ==
    [size |-> 0, capacity |-> capacity, discount_factor |-> discount_factor,
     state_buffer |-> RingBuffer(capacity, state_dim),
     action_buffer |-> RingBuffer(capacity, action_dim),
     reward_buffer |-> RingBuffer(capacity, 1)]

\* Rollout.ready
Rollout_ready(self) == self.size = self.capacity

\* Rollout.push with the count not capped at the capacity
Rollout_push_nomin(self, state, action, reward) ==
    LET a1 == RingBuffer_add(self.state_buffer, state)
        a2 == RingBuffer_add(self.action_buffer, action)
        a3 == RingBuffer_add(self.reward_buffer, reward)
    IN  [self |-> [self EXCEPT !.state_buffer = a1.self,
                               !.action_buffer = a2.self,
                               !.reward_buffer = a3.self,
                               !.size = self.size + 1],
         raised |-> "none"]

\* Rollout.push: three add calls, then _size = min(_size + 1, _capacity); an
\* add that raises ends the call
Rollout_push(self, state, action, reward) ==
    LET a1 == RingBuffer_add(self.state_buffer, state)
        s1 == [self EXCEPT !.state_buffer = a1.self]
        a2 == RingBuffer_add(s1.action_buffer, action)
        s2 == [s1 EXCEPT !.action_buffer = a2.self]
        a3 == RingBuffer_add(s2.reward_buffer, reward)
        s3 == [s2 EXCEPT !.reward_buffer = a3.self]
    IN  IF a1.raised # "none" THEN [self |-> s1, raised |-> a1.raised]
        ELSE IF a2.raised # "none" THEN [self |-> s2, raised |-> a2.raised]
        ELSE IF a3.raised # "none" THEN [self |-> s3, raised |-> a3.raised]
        ELSE [self |-> [s3 EXCEPT !.size = IF s3.size + 1 < s3.capacity
                                           THEN s3.size + 1 ELSE s3.capacity],
              raised |-> "none"]

\* Rollout._compute_cumulative_reward: the sum over t in range(_capacity) of
\* discount ** t * reward_buffer[t], as the fraction num / den with
\* den = discount.den ** (_capacity - 1)
CumulativeReward(self) ==
    LET g == self.discount_factor
        n == self.capacity
        term[t \in 0..n] ==
            IF t = n THEN 0
            ELSE Pow(g.num, t) * Pow(g.den, n - 1 - t) * self.reward_buffer.container[t + 1][1]
                 + term[t + 1]
    IN  [num |-> term[0], den |-> Pow(g.den, n - 1)]

None == [kind |-> "None"]

\* Rollout.get_transition
Rollout_get_transition(self, state, action, reward, next_state, done) ==
    LET p == Rollout_push(self, state, action, reward)
    IN  IF p.raised # "none" THEN [self |-> p.self, raised |-> p.raised, value |-> None]
        ELSE IF p.self.size = p.self.capacity
        THEN [self |-> p.self, raised |-> "none",
              value |-> [kind |-> "transition",
                         state |-> Row(p.self.state_buffer.container, 0),
                         action |-> Row(p.self.action_buffer.container, 0),
                         reward |-> CumulativeReward(p.self),
                         next_state |-> next_state,
                         done |-> done]]
        ELSE [self |-> p.self, raised |-> "none", value |-> None]

\* Rollout.reset: the three buffers are reset; neither their _size nor the
\* Rollout's own _size is assigned
Rollout_reset(self) ==
    [self EXCEPT !.state_buffer = RingBuffer_reset(self.state_buffer),
                 !.action_buffer = RingBuffer_reset(self.action_buffer),
                 !.reward_buffer = RingBuffer_reset(self.reward_buffer)]

\* ------------------------------------------------------------------- inputs
\* arguments of get_transition: state s, action 3 - s, reward r, next state
\* s + 1 and the done flag
RolloutArgs ==
    {[state |-> <<s>>, action |-> <<3 - s>>, reward |-> <<r>>,
      next_state |-> <<s + 1>>, done |-> d] :
         s \in Numbers, r \in Numbers, d \in BOOLEAN}

\* ---------------------------------------------------- Rollout state machine
InitRollout ==
    /\ \E capacity \in Capacities, discount_factor \in Discounts :
           roll = Rollout(capacity, 1, 1, discount_factor)
    /\ rollRet = NoCall
    /\ rollLog = [calls |-> 0, pushes |-> 0, resets |-> 0, win |-> <<>>]

\* a push call made by the caller, outside get_transition
PushRollout ==
    /\ rollLog.calls + rollLog.pushes < MaxCalls
    /\ \E a \in RolloutArgs :
           LET r == Rollout_push(roll, a.state, a.action, a.reward)
           IN  /\ roll' = r.self
               /\ rollRet' = [op |-> "push", raised |-> r.raised]
               /\ rollLog' = [rollLog EXCEPT
                                !.pushes = rollLog.pushes + 1,
                                !.win = Last(Append(rollLog.win,
                                                 [state |-> a.state, action |-> a.action,
                                                  reward |-> a.reward]),
                                             roll.capacity)]
    /\ UNCHANGED exceptRollout

GetTransition ==
    /\ rollLog.calls + rollLog.pushes < MaxCalls
    /\ \E a \in RolloutArgs :
           LET r == Rollout_get_transition(roll, a.state, a.action, a.reward,
                                           a.next_state, a.done)
           IN  /\ roll' = r.self
               /\ rollRet' = [op |-> "get_transition", raised |-> r.raised,
                              value |-> r.value, args |-> a]
               /\ rollLog' = [rollLog EXCEPT
                                !.calls = rollLog.calls + 1,
                                !.win = Last(Append(rollLog.win,
                                                 [state |-> a.state, action |-> a.action,
                                                  reward |-> a.reward]),
                                             roll.capacity)]
    /\ UNCHANGED exceptRollout

ResetRollout ==
    /\ roll' = Rollout_reset(roll)
    /\ rollRet' = [op |-> "reset", raised |-> "none"]
    /\ rollLog' = [rollLog EXCEPT !.resets = 1,
                                  !.win = <<>>]
    /\ UNCHANGED exceptRollout

NextRollout == PushRollout \/ GetTransition \/ ResetRollout

\* ------------------------------------------------- arrays and references
\* The buffers of hmem hold in `container` the address of a numpy array in
\* heap, so that two names for one array can be told from two equal arrays.

\* the buffer with its container read from the heap
Deref(h, self) == [self EXCEPT !.container = h[self.container]]

\* the address of a newly allocated array
NewAddr(h) == CHOOSE n \in 1..(Cardinality(DOMAIN h) + 1) : n \notin DOMAIN h

\* heap h with array a stored at address n, allocated or not
Store(h, n, a) == [m \in DOMAIN h \cup {n} |-> IF m = n THEN a ELSE h[m]]

\* RingBuffer.add on the heap: below capacity the row is assigned in place;
\* at capacity np.roll allocates a new array, self._container is bound to it
\* and the row is assigned there
RingBuffer_add_at(h, self, value) ==
    LET a == RingBuffer_add(Deref(h, self), value)
        n == IF self.size = self.capacity THEN NewAddr(h) ELSE self.container
    IN  [heap |-> Store(h, n, a.self.container),
         self |-> [a.self EXCEPT !.container = n],
         raised |-> a.raised, branch |-> a.branch]

\* an array reference: rows idx of the array at address base
RefValue(h, ref) == Take(h[ref.base], ref.idx).value

\* RingBuffer.sample returning a view: the rows idx of the container itself
RingBuffer_sample_view(h, self, idx) ==
    LET t == RingBuffer_sample(Deref(h, self), idx)
    IN  [heap |-> h, raised |-> t.raised,
         ref |-> [base |-> self.container, idx |-> idx]]

\* RingBuffer.sample on the heap: self._container[idx] with an index array
\* idx is advanced indexing, which allocates a new array holding the rows
RingBuffer_sample_at(h, self, idx) ==
    LET t == RingBuffer_sample(Deref(h, self), idx)
        n == NewAddr(h)
    IN  IF t.raised # "none"
        THEN [heap |-> h, raised |-> t.raised, ref |-> [base |-> n, idx |-> <<>>]]
        ELSE [heap |-> Store(h, n, t.value), raised |-> "none",
              ref |-> [base |-> n, idx |-> [k \in 1..Len(idx) |-> k - 1]]]

\* ReplayMemory.__init__ on the heap: the five containers at addresses 1..5
ReplayMemory_at(capacity, state_dim, action_dim, combined) ==
    LET m == ReplayMemory(capacity, state_dim, action_dim, combined)
    IN  [heap |-> [k \in FieldIndex |-> m[Fields[k]].container],
         self |-> [f \in DOMAIN m |->
                      IF \E k \in FieldIndex : Fields[k] = f
                      THEN [m[f] EXCEPT !.container =
                                CHOOSE k \in FieldIndex : Fields[k] = f]
                      ELSE m[f]]]

\* ReplayMemory.push on the heap, from the add of field k on
RECURSIVE ReplayMemory_push_at(_, _, _, _)
ReplayMemory_push_at(h, self, t, k) ==
    IF k > Len(Fields) THEN [heap |-> h, self |-> self, raised |-> "none"]
    ELSE LET a == RingBuffer_add_at(h, self[Fields[k]], FieldValue(t, k))
             s == [self EXCEPT ![Fields[k]] = a.self]
         IN  IF a.raised # "none"
             THEN [heap |-> a.heap, self |-> s, raised |-> a.raised]
             ELSE ReplayMemory_push_at(a.heap, s, t, k + 1)

\* the five RingBuffer.sample calls of ReplayMemory.sample on the heap, from
\* field k on; refs are the references gathered so far
RECURSIVE Gather_at(_, _, _, _, _)
Gather_at(h, self, idxs, k, refs) ==
    IF k > Len(Fields) THEN [heap |-> h, raised |-> "none", batch |-> refs]
    ELSE LET r == RingBuffer_sample_at(h, self[Fields[k]], idxs)
         IN  IF r.raised # "none"
             THEN [heap |-> h, raised |-> r.raised, batch |-> <<>>]
             ELSE Gather_at(r.heap, self, idxs, k + 1, Append(refs, r.ref))

\* ReplayMemory.sample on the heap, given the outcome of its randint call
ReplayMemory_sample_at(h, self, drawn) ==
    IF drawn.raised # "none"
    THEN [heap |-> h, raised |-> drawn.raised, batch |-> <<>>]
    ELSE Gather_at(h, self,
                   IF self.combined
                   THEN Append(drawn.value, ReplayMemory_size(self) - 1)
                   ELSE drawn.value,
                   1, <<>>)

\* reference counting: the arrays that neither a buffer nor the kept Batch
\* refers to are freed
Collect(h, self, batch) ==
    LET live == {self[Fields[k]].container : k \in FieldIndex}
                \cup {batch[k].base : k \in 1..Len(batch)}
    IN  [n \in DOMAIN h \cap live |-> h[n]]

\* the values of a Batch of references
BatchValue(h, batch) == [k \in 1..Len(batch) |-> RefValue(h, batch[k])]

NoneHeld == [batch |-> <<>>, pushed |-> 0, appended |-> FALSE, rolled |-> FALSE]

\* ----------------------------------------- state machine of a kept Batch
InitAlias ==
    /\ \E capacity \in Capacities, state_dim \in StateDims,
          action_dim \in ActionDims, combined \in BOOLEAN :
           LET m == ReplayMemory_at(capacity, state_dim, action_dim, combined)
           IN  heap = m.heap /\ hmem = m.self
    /\ held = <<>>
    /\ heldLog = NoneHeld

\* a push, with a Batch from an earlier sample possibly in the caller's hands
PushHeld ==
    /\ heldLog.pushed < MaxAdds
    /\ \E v \in Numbers :
           LET r == ReplayMemory_push_at(heap, hmem, Transition(hmem, v, 0), 1)
           IN  /\ hmem' = r.self
               /\ heap' = Collect(r.heap, r.self, held)
               /\ heldLog' = [heldLog EXCEPT
                     !.pushed = heldLog.pushed + 1,
                     !.appended = heldLog.appended
                         \/ (held # <<>> /\ ReplayMemory_size(hmem) < hmem.capacity),
                     !.rolled = heldLog.rolled
                         \/ (held # <<>> /\ ReplayMemory_size(hmem) = hmem.capacity)]
    /\ UNCHANGED held
    /\ UNCHANGED exceptAlias

\* a sample whose Batch the caller keeps, dropping the one kept before
SampleHeld ==
    /\ \E batch_size \in BatchSizes :
         \E drawn \in Randint(DrawHigh(hmem), DrawCount(hmem, batch_size)) :
           LET r == ReplayMemory_sample_at(heap, hmem, drawn)
           IN  /\ r.raised = "none"
               /\ held' = r.batch
               /\ heap' = Collect(r.heap, hmem, r.batch)
               /\ heldLog' = [heldLog EXCEPT !.batch = BatchValue(r.heap, r.batch),
                                             !.appended = FALSE,
                                             !.rolled = FALSE]
    /\ UNCHANGED hmem
    /\ UNCHANGED exceptAlias

NextAlias == PushHeld \/ SampleHeld

\* ------------------------------------------------------------ the backend
\* the type of what RingBuffer.sample returns: a torch.Tensor when the class
\* attribute is set at the time of the call, the numpy array otherwise
RingBuffer_sample_type(flag) == IF flag THEN "Tensor" ELSE "ndarray"

\* --------------------------------- state machine of several ReplayMemories
InitBackend ==
    /\ TORCH_BACKEND = FALSE
    /\ mems = <<>>
    /\ backRet = NoCall

\* ReplayMemory.__init__: assigns the class attribute, then builds the buffers
Construct ==
    /\ Len(mems) < MaxMems
    /\ \E combined \in BOOLEAN, torch_backend \in BOOLEAN :
           /\ TORCH_BACKEND' = torch_backend
           /\ mems' = Append(mems, [torch_backend |-> torch_backend,
                                    mem |-> ReplayMemory(MaxCap, 2, 1, combined)])
    /\ UNCHANGED backRet
    /\ UNCHANGED exceptBackend

PushTo ==
    /\ \E i \in 1..Len(mems) :
           LET t == Transition(mems[i].mem, 1, 0)
               r == ReplayMemory_push(mems[i].mem, t.state, t.action, t.reward,
                                      t.next_state, t.terminal)
           IN  mems' = [mems EXCEPT ![i].mem = r.self]
    /\ UNCHANGED <<TORCH_BACKEND, backRet>>
    /\ UNCHANGED exceptBackend

SampleFrom ==
    /\ \E i \in 1..Len(mems), batch_size \in BatchSizes :
         \E drawn \in Randint(DrawHigh(mems[i].mem),
                              DrawCount(mems[i].mem, batch_size)) :
           LET r == ReplayMemory_sample(mems[i].mem, batch_size, drawn)
           IN  backRet' = [op |-> "sample", who |-> i, raised |-> r.raised,
                           rows |-> Len(r.idxs),
                           type |-> RingBuffer_sample_type(TORCH_BACKEND)]
    /\ UNCHANGED <<TORCH_BACKEND, mems>>
    /\ UNCHANGED exceptBackend

NextBackend == Construct \/ PushTo \/ SampleFrom

\* -------------------------------------------------------------- two threads
\* One thread pushes and one samples, on the same ReplayMemory.  Neither
\* method takes a lock, so the interpreter may switch threads between any two
\* statements: between the two statements of a branch of RingBuffer.add,
\* between two of the five add calls of a push, and between the statements of
\* sample (the randint call, the append of combined mode, each of the five
\* RingBuffer.sample calls).

\* the first statement of the branch RingBuffer.add takes: the row
\* assignment at index _size below capacity, the rebinding of _container to
\* its rolled copy at capacity
RingBuffer_add_first(self, value) ==
    IF self.size < self.capacity
    THEN [self |-> [self EXCEPT !.container[self.size + 1] =
                                    Broadcast(value, self.dimension)],
          branch |-> "append"]
    ELSE IF self.size = self.capacity
    THEN [self |-> [self EXCEPT !.container = Roll(self.container)],
          branch |-> "roll"]
    ELSE [self |-> self, branch |-> "else"]

\* the second statement of that branch: _size += 1 below capacity, the
\* assignment of the last row at capacity
RingBuffer_add_second(self, value, branch) ==
    IF branch = "append"
    THEN [self EXCEPT !.size = self.size + 1]
    ELSE IF branch = "roll"
    THEN [self EXCEPT !.container[self.capacity] = Broadcast(value, self.dimension)]
    ELSE self

NoPush == [done |-> 0, branch |-> "", transition |-> <<>>]

NoSample == [pc |-> "idle", batch_size |-> 0, idxs |-> <<>>, got |-> <<>>]

InitThreads ==
    /\ \E capacity \in Capacities, state_dim \in StateDims,
          action_dim \in ActionDims, combined \in BOOLEAN :
           cmem = ReplayMemory(capacity, state_dim, action_dim, combined)
    /\ pushing = NoPush
    /\ sampling = NoSample
    /\ concRet = NoCall
    /\ concPushes = 0

\* the pushing thread runs the next statement of its push: the first or the
\* second statement of the add call it is in; the second statement of the
\* fifth add ends the push, and a new push starts with the add of the state
PushStep ==
    /\ pushing # NoPush \/ concPushes < MaxAdds
    /\ \E v \in Numbers :
           LET t == IF pushing = NoPush THEN Transition(cmem, v, 0)
                    ELSE pushing.transition
               k == pushing.done + 1
               value == FieldValue(t, k)
               first == RingBuffer_add_first(cmem[Fields[k]], value)
               second == RingBuffer_add_second(cmem[Fields[k]], value,
                                               pushing.branch)
           IN  IF pushing.branch = ""
               THEN /\ cmem' = [cmem EXCEPT ![Fields[k]] = first.self]
                    /\ pushing' = [done |-> pushing.done, branch |-> first.branch,
                                   transition |-> t]
               ELSE /\ cmem' = [cmem EXCEPT ![Fields[k]] = second]
                    /\ pushing' = IF k = Len(Fields) THEN NoPush
                                  ELSE [done |-> k, branch |-> "", transition |-> t]
    /\ concPushes' = IF pushing = NoPush THEN concPushes + 1 ELSE concPushes
    /\ UNCHANGED <<sampling, concRet>>
    /\ UNCHANGED exceptThreads

\* the sampling thread runs the next statement of its sample call: the
\* randint call, in combined mode the append of size - 1, then the
\* RingBuffer.sample calls one by one; the fifth of them, or a statement that
\* raises, ends the call
SampleStep ==
    /\ CASE sampling.pc = "idle" ->
              \E batch_size \in BatchSizes :
                \E drawn \in Randint(DrawHigh(cmem), DrawCount(cmem, batch_size)) :
                  IF drawn.raised # "none"
                  THEN /\ sampling' = NoSample
                       /\ concRet' = [op |-> "sample", raised |-> drawn.raised,
                                      batch |-> <<>>]
                  ELSE /\ sampling' = [pc |-> IF cmem.combined THEN "append"
                                              ELSE "read",
                                       batch_size |-> batch_size,
                                       idxs |-> drawn.value, got |-> <<>>]
                       /\ UNCHANGED concRet
         [] sampling.pc = "append" ->
              /\ sampling' = [sampling EXCEPT
                                 !.pc = "read",
                                 !.idxs = Append(@, ReplayMemory_size(cmem) - 1)]
              /\ UNCHANGED concRet
         [] sampling.pc = "read" ->
              LET k == Len(sampling.got) + 1
                  r == RingBuffer_sample(cmem[Fields[k]], sampling.idxs)
              IN  IF r.raised # "none"
                  THEN /\ sampling' = NoSample
                       /\ concRet' = [op |-> "sample", raised |-> r.raised,
                                      batch |-> <<>>]
                  ELSE IF k = Len(Fields)
                  THEN /\ sampling' = NoSample
                       /\ concRet' = [op |-> "sample", raised |-> "none",
                                      batch |-> [state |-> sampling.got[1],
                                                 action |-> sampling.got[2],
                                                 reward |-> sampling.got[3],
                                                 next_state |-> sampling.got[4],
                                                 done |-> r.value]]
                  ELSE /\ sampling' = [sampling EXCEPT !.got = Append(@, r.value)]
                       /\ UNCHANGED concRet
    /\ UNCHANGED <<cmem, pushing, concPushes>>
    /\ UNCHANGED exceptThreads

NextThreads == PushStep \/ SampleStep

\* ------------------------------------------------- categorical projection
\* DQN._compute_categorical_loss, the projection of one batch row, in exact
\* arithmetic.  With m = atoms_dim, W = v_max - v_min and discount num / den,
\* values on the value axis are integers in units of 1 / (den * (m - 1)),
\* positions bj on the support are integers in units of 1 / (W * den), and
\* probabilities times positions are integers in units of
\* 1 / (ProbScale * W * den).

\* all sequences of n naturals that sum to total
RECURSIVE Compositions(_, _)
Compositions(total, n) ==
    IF n = 0 THEN IF total = 0 THEN {<<>>} ELSE {}
    ELSE UNION {{Append(c, k) : c \in Compositions(total - k, n - 1)} : k \in 0..total}

\* one batch row and the agent's parameters
ProjectionInputs ==
    UNION {[atoms_dim : {m}, v_limit : {<<-1, 1>>, <<0, 2>>},
            discount : Discounts, reward : -MaxReward..MaxReward, mask : {0, 1},
            next_probs : Compositions(ProbScale, m)] : m \in 2..MaxAtoms}

Width(in) == in.v_limit[2] - in.v_limit[1]
ValueUnit(in) == in.discount.den * (in.atoms_dim - 1)
\* self._z_delta = (v_max - v_min) / (atoms_dim - 1), as the number of value
\* units per support step times ValueUnit
PositionUnit(in) == Width(in) * in.discount.den

\* self._atoms = linspace(v_min, v_max, atoms_dim): atom j, 0-based, in
\* units of 1 / (m - 1)
Atom(in, j) == in.v_limit[1] * (in.atoms_dim - 1) + j * Width(in)

\* _td_target(reward, mask, atoms) = reward + mask * discount * atoms
TdTarget(in, j) == in.reward * ValueUnit(in) + in.mask * in.discount.num * Atom(in, j)

\* torch.clamp(x, lo, hi)
Clamp(x, lo, hi) == IF x < lo THEN lo ELSE IF x > hi THEN hi ELSE x

\* bj = (clamp(next_atoms, v_min, v_max) - v_min) / z_delta, its numerator
\* over PositionUnit
Bj(in, j) ==
    Clamp(TdTarget(in, j), in.v_limit[1] * ValueUnit(in), in.v_limit[2] * ValueUnit(in))
        - in.v_limit[1] * ValueUnit(in)

\* l = bj.floor(), u = bj.ceil()
Floor(in, j) == Bj(in, j) \div PositionUnit(in)
Ceil(in, j) == Floor(in, j) + (IF Bj(in, j) % PositionUnit(in) = 0 THEN 0 ELSE 1)

\* delta_l_prob without the (u == l) term
DeltaL_noeq(in, j) ==
    in.next_probs[j + 1] * (Ceil(in, j) * PositionUnit(in) - Bj(in, j))

\* delta_l_prob = next_probs * (u + (u == l).float() - bj)
DeltaL(in, j) ==
    in.next_probs[j + 1]
        * (Ceil(in, j) * PositionUnit(in)
           + (IF Ceil(in, j) = Floor(in, j) THEN PositionUnit(in) ELSE 0)
           - Bj(in, j))

\* delta_u_prob = next_probs * (bj - l)
DeltaU(in, j) ==
    in.next_probs[j + 1] * (Bj(in, j) - Floor(in, j) * PositionUnit(in))

\* the sum of f[j] over j in S
RECURSIVE SumOver(_, _)
SumOver(f, S) ==
    IF S = {} THEN 0
    ELSE LET j == CHOOSE x \in S : TRUE IN f[j] + SumOver(f, S \ {j})

\* target.index_add_(0, index, source): target[index[j]] += source[j], every j
IndexAdd(target, index, source) ==
    [i \in DOMAIN target |->
        target[i] + SumOver(source, {j \in DOMAIN index : index[j] = i - 1})]

\* target_probs of the row: zeros, then the two index_add_ calls
ProjectRow(in) ==
    LET js == 0..(in.atoms_dim - 1)
        zeros == [i \in 1..in.atoms_dim |-> 0]
        lower == IndexAdd(zeros, [j \in js |-> Floor(in, j)], [j \in js |-> DeltaL(in, j)])
    IN  IndexAdd(lower, [j \in js |-> Ceil(in, j)], [j \in js |-> DeltaU(in, j)])

\* ------------------------------------------ the projection as a state machine
InitProjection ==
    \E in \in ProjectionInputs : proj = [in |-> in, done |-> FALSE, target |-> <<>>]

Project ==
    /\ ~proj.done
    /\ proj' = [proj EXCEPT !.done = TRUE, !.target = ProjectRow(proj.in)]
    /\ UNCHANGED exceptProjection

\* ------------------------------------------------- delayed policy updates
\* DDPG.__init__ and its base class: the two frequencies, the warm-up
\* threshold, the environment step counter and the size of the replay memory
DDPG(policy_update_frequency, update_frequency, warm_up_steps) ==
    [policy_update_frequency |-> policy_update_frequency,
     update_frequency |-> update_frequency,
     warm_up_steps |-> warm_up_steps,
     env_step |-> 0,
     size |-> 0,
     did |-> [op |-> "init", critic |-> FALSE, actor |-> FALSE, target |-> FALSE]]

\* DDPG._update (TD3._update of agents/td3.py is the same statements): the
\* critic update, then, when _env_step is a multiple of
\* policy_update_frequency * update_frequency, the actor update and the two
\* _update_target calls
DDPG_update(self) ==
    LET update_freq == self.policy_update_frequency * self.update_frequency
        gate == self.env_step % update_freq = 0
    IN  [self EXCEPT !.did = [op |-> "_update", critic |-> TRUE,
                              actor |-> gate, target |-> gate]]

\* observe of the agent loop: the transition is pushed into the replay
\* memory, whose size grows by one up to its capacity MaxCap
Agent_observe(self) ==
    [self EXCEPT !.size = IF self.size < MaxCap
                          THEN self.size + 1 ELSE self.size]

\* TRAINING, as opposed to WARMING_UP: ReplayMemory.size exceeds the warm-up
\* threshold
Training(self) == self.size > self.warm_up_steps

\* update of the agent loop: a no-op while warming up, else one _update call
Agent_update(self) ==
    IF Training(self)
    THEN DDPG_update(self)
    ELSE [self EXCEPT !.did = [op |-> "no-op", critic |-> FALSE,
                               actor |-> FALSE, target |-> FALSE]]

\* environment steps of one run: room for three actor updates at the
\* largest frequencies
MaxSteps == 3 * 2 * MaxFreq

\* -------------------------------------------- the agent loop as a state machine
InitAgent ==
    /\ \E policy_update_frequency \in 1..MaxFreq, update_frequency \in {1, 2},
          warm_up_steps \in 0..(MaxCap - 1) :
           agent = DDPG(policy_update_frequency, update_frequency, warm_up_steps)
    /\ agentLog = [turn |-> "observe", calls |-> 0]

\* an environment step begins: the step counter that _update reads moves on
\* and the step's transition is observed
Observe ==
    /\ agentLog.turn = "observe"
    /\ agent.env_step < MaxSteps
    /\ agent' = Agent_observe([agent EXCEPT !.env_step = agent.env_step + 1])
    /\ agentLog' = [agentLog EXCEPT !.turn = "update"]
    /\ UNCHANGED exceptAgent

\* the update call of the environment step
Update ==
    /\ agentLog.turn = "update"
    /\ agent' = Agent_update(agent)
    /\ agentLog' = [turn |-> "observe", calls |-> agentLog.calls + 1]
    /\ UNCHANGED exceptAgent

NextAgent == Observe \/ Update

\* ------------------------------------------------------------------ DQN
\* A network's parameters are one integer, kept in `params` at the
\* network's address, so that a copy can be told from a second name.

\* DQN.load, given what the checkpoint manager finds: a checkpoint's
\* parameters are copied into self._qv and its step into self._step; nothing
\* else is assigned, the target network included
DQN_load(self, checkpoint) ==
    IF checkpoint.found
    THEN [self EXCEPT !.params[self.qv] = checkpoint.model,
                      !.step = checkpoint.step,
                      !.loaded = TRUE]
    ELSE self

\* DQN.__init__ with the target copied before the checkpoint is loaded
DQN_init_copy_first(config, initial, checkpoint) ==
    [params |-> <<IF checkpoint.found THEN checkpoint.model ELSE initial, initial>>,
     qv |-> 1, target_qv |-> 2,
     step |-> IF checkpoint.found THEN checkpoint.step ELSE 0,
     grad_norm_value |-> config.grad_norm_value,
     use_noise |-> config.use_noise,
     target_update_frequency |-> config.target_update_frequency,
     target_calls |-> 0, epsilon_step |-> 0,
     did |-> <<"init">>, loaded |-> checkpoint.found, initial |-> initial]

\* DQN.__init__: self._qv is built with its initial parameters, self.load()
\* copies the checkpoint's parameters into it when there is a checkpoint,
\* then self._target_qv = deepcopy(self._qv) is a new parameter set with the
\* same values
DQN_init(config, initial, checkpoint) ==
    LET built == [params |-> <<initial>>,
                  qv |-> 1, target_qv |-> 2,
                  step |-> 0,
                  grad_norm_value |-> config.grad_norm_value,
                  use_noise |-> config.use_noise,
                  target_update_frequency |-> config.target_update_frequency,
                  target_calls |-> 0, epsilon_step |-> 0,
                  did |-> <<"init">>, loaded |-> FALSE, initial |-> initial]
        loaded == DQN_load(built, checkpoint)
    IN  [loaded EXCEPT !.params = <<loaded.params[loaded.qv],
                                    loaded.params[loaded.qv]>>]

\* LinearScheduler.step, called by _act: the schedule moves one step on
Scheduler_step(self) == [self EXCEPT !.epsilon_step = self.epsilon_step + 1]

\* DQN._act, given the outcome eps_flag of random.random() > epsilon: the
\* scheduler is stepped on every call, then the greedy action is returned
\* when eps_flag or use_noise or not train, a random action otherwise
DQN_act(self, train, eps_flag) ==
    LET s == Scheduler_step(self)
    IN  [s EXCEPT !.did = <<"_act", IF train THEN "train" ELSE "eval",
                            IF eps_flag \/ self.use_noise \/ ~train
                            THEN "argmax" ELSE "random">>]

\* the hard policy of _update_target(live, target): every
\* target_update_frequency-th call copies the live parameters into the target
UpdateTarget(self) ==
    LET calls == self.target_calls + 1
    IN  [self EXCEPT !.target_calls = calls,
                     !.params[self.target_qv] =
                         IF calls % self.target_update_frequency = 0
                         THEN self.params[self.qv]
                         ELSE self.params[self.target_qv]]

\* nn.utils.clip_grad_norm_ on a gradient of one number
ClipGrad(g, max_norm) ==
    IF g > max_norm THEN max_norm ELSE IF g < -max_norm THEN -max_norm ELSE g

\* DQN._update with the gradient clipped whatever the threshold is
DQN_update_always_clip(self, g) ==
    LET clipped == ClipGrad(g, self.grad_norm_value)
        stepped == [self EXCEPT !.params[self.qv] = self.params[self.qv] - clipped]
    IN  [UpdateTarget(stepped) EXCEPT
            !.did = <<"sample", "loss", "zero_grad", "backward", "clip",
                      "optim_step", "update_target">>]

\* DQN._update with the target synchronized before the optimizer step
DQN_update_sync_first(self, g) ==
    LET clipped == IF self.grad_norm_value > 0
                   THEN ClipGrad(g, self.grad_norm_value) ELSE g
        synced == UpdateTarget(self)
    IN  [synced EXCEPT
            !.params[self.qv] = self.params[self.qv] - clipped,
            !.did = <<"sample", "loss", "zero_grad", "backward">>
                    \o (IF self.grad_norm_value > 0 THEN <<"clip">> ELSE <<>>)
                    \o <<"update_target", "optim_step">>]

\* DQN._update, given the gradient g that the loss of the sampled batch
\* yields: sample, loss, zero_grad, backward, clip_grad_norm_ when
\* grad_norm_value > 0, the optimizer step (here: subtract the gradient),
\* then _update_target
DQN_update(self, g) ==
    LET clipped == IF self.grad_norm_value > 0
                   THEN ClipGrad(g, self.grad_norm_value) ELSE g
        stepped == [self EXCEPT !.params[self.qv] = self.params[self.qv] - clipped]
    IN  [UpdateTarget(stepped) EXCEPT
            !.did = <<"sample", "loss", "zero_grad", "backward">>
                    \o (IF self.grad_norm_value > 0 THEN <<"clip">> ELSE <<>>)
                    \o <<"optim_step", "update_target">>]

\* ------------------------------------------------------------------- inputs
DQNConfigs ==
    [grad_norm_value : {0, 1}, use_noise : BOOLEAN,
     target_update_frequency : 1..MaxFreq]

\* what the checkpoint manager finds: nothing, or saved parameters and step
Checkpoints ==
    {[found |-> FALSE, model |-> 0, step |-> 0]}
        \cup [found : {TRUE}, model : {0, 5}, step : {3}]

\* gradients of the loss of a sampled batch
Gradients == {-2, 0, 1}

MaxUpdates == 2 * MaxFreq

NoDQNCalls == [updates |-> 0, acts |-> 0, loads |-> 0, since |-> 0]

\* ------------------------------------------------------ DQN state machine
InitDQN ==
    /\ \E config \in DQNConfigs, checkpoint \in Checkpoints :
           dqn = DQN_init(config, 0, checkpoint)
    /\ dqnLog = NoDQNCalls

ActDQN ==
    /\ dqnLog.acts < MaxFreq
    /\ \E train \in BOOLEAN, eps_flag \in BOOLEAN :
           dqn' = DQN_act(dqn, train, eps_flag)
    /\ dqnLog' = [dqnLog EXCEPT !.acts = dqnLog.acts + 1]
    /\ UNCHANGED exceptDQN

UpdateDQN ==
    /\ dqnLog.updates < MaxUpdates
    /\ \E g \in Gradients : dqn' = DQN_update(dqn, g)
    /\ dqnLog' = [dqnLog EXCEPT
                    !.updates = dqnLog.updates + 1,
                    !.since = IF dqnLog.since + 1 = dqn.target_update_frequency
                              THEN 0 ELSE dqnLog.since + 1]
    /\ UNCHANGED exceptDQN

\* a load call made by the caller after construction
LoadDQN ==
    /\ dqnLog.loads < MaxLoads
    /\ \E checkpoint \in Checkpoints :
           dqn' = [DQN_load(dqn, checkpoint) EXCEPT !.did = <<"load">>]
    /\ dqnLog' = [dqnLog EXCEPT !.loads = dqnLog.loads + 1]
    /\ UNCHANGED exceptDQN

NextDQN == ActDQN \/ UpdateDQN \/ LoadDQN

\* ------------------------------------------------------------- SAC and TD3
\* the parameter groups of an actor-critic agent: the first critic's
\* (q1_parameters), the second critic's (q2_parameters), the policy's and
\* SAC's log_alpha.  A group's parameters and their gradient are one number.
Groups == {"q1", "q2", "pi", "alpha"}

\* SAC.__init__ / TD3.__init__: the two thresholds, parameters and gradients
\* at zero, no update made
ActorCritic(kind, qvs_grad_norm_value, pi_grad_norm_value, alpha_tuning) ==
    [kind |-> kind,
     qvs_grad_norm_value |-> qvs_grad_norm_value,
     pi_grad_norm_value |-> pi_grad_norm_value,
     alpha_tuning |-> alpha_tuning,
     params |-> [p \in Groups |-> 0],
     grad |-> [p \in Groups |-> 0],
     steps |-> <<>>,
     updates |-> 0]

\* one optimizer's turn in an update: optim.zero_grad() zeroes the gradients
\* of the groups the optimizer holds, loss.backward() adds g to the gradients
\* of every group the loss was computed from (`reached`), then
\* `if max_norm > 0.0: clip_grad_norm_(clipped, max_norm)` clips the
\* gradients of the groups it is handed, and optim.step() moves the
\* optimizer's groups by their gradients.  The step is recorded with the
\* groups it moved, the groups clipped before it and the gradients held.
OptimizerPass(self, optim, stepped, reached, g, clipped, max_norm) ==
    LET zeroed == [p \in Groups |-> IF p \in stepped THEN 0 ELSE self.grad[p]]
        backward == [p \in Groups |->
                        IF p \in reached THEN zeroed[p] + g[p] ELSE zeroed[p]]
        clip == [p \in Groups |->
                    IF max_norm > 0 /\ p \in clipped
                    THEN ClipGrad(backward[p], max_norm) ELSE backward[p]]
    IN  [self EXCEPT
            !.grad = clip,
            !.params = [p \in Groups |->
                           IF p \in stepped THEN self.params[p] - clip[p]
                           ELSE self.params[p]],
            !.steps = Append(self.steps,
                             [optim |-> optim, stepped |-> stepped,
                              clipped |-> IF max_norm > 0 THEN clipped ELSE {},
                              max_norm |-> max_norm, grad |-> clip])]

\* SAC.load, given what the checkpoint manager finds: a checkpoint's
\* 'actor' and 'critic' are copied into self._pi and self._qvs; gradients,
\* log_alpha and the optimizers are not assigned
SAC_load(self, checkpoint) ==
    IF checkpoint.found
    THEN [self EXCEPT !.params =
             [p \in Groups |->
                 CASE p = "pi" -> checkpoint.actor
                   [] p = "q1" -> checkpoint.critic[1]
                   [] p = "q2" -> checkpoint.critic[2]
                   [] OTHER -> self.params[p]]]
    ELSE self

\* SAC._update_parameters: the q1 optimizer, the q2 optimizer (with the
\* clipping call handed q1_parameters again), the policy optimizer and, with
\* alpha tuning, the alpha optimizer, which has no clipping call.  The policy
\* loss is computed from the policy, from both critics and from self._alpha,
\* which is a number until the first update with alpha tuning ends in
\* self._alpha = torch.exp(self._log_alpha) and a function of log_alpha from
\* then on.
SAC_update_parameters(self, g) ==
    LET s0 == [self EXCEPT !.steps = <<>>, !.updates = self.updates + 1]
        s1 == OptimizerPass(s0, "qv_1_optim", {"q1"}, {"q1"}, g, {"q1"},
                            self.qvs_grad_norm_value)
        s2 == OptimizerPass(s1, "qv_2_optim", {"q2"}, {"q2"}, g, {"q1"},
                            self.qvs_grad_norm_value)
        s3 == OptimizerPass(s2, "pi_optim", {"pi"},
                            IF self.alpha_tuning /\ self.updates > 0
                            THEN {"pi", "q1", "q2", "alpha"}
                            ELSE {"pi", "q1", "q2"},
                            g, {"pi"}, self.pi_grad_norm_value)
    IN  IF self.alpha_tuning
        THEN OptimizerPass(s3, "alpha_optim", {"alpha"}, {"alpha"}, g, {}, 0)
        ELSE s3

\* TD3._update_critic: one optimizer over both critics' parameters, the
\* clipping call handed q1_parameters
TD3_update_critic(self, g) ==
    OptimizerPass(self, "qv_optim", {"q1", "q2"}, {"q1", "q2"}, g, {"q1"},
                  self.qvs_grad_norm_value)

\* TD3._update_actor: the loss is the first critic's value of the policy's
\* actions
TD3_update_actor(self, g) ==
    OptimizerPass(self, "pi_optim", {"pi"}, {"pi", "q1"}, g, {"pi"},
                  self.pi_grad_norm_value)

\* the gradients a backward call leaves on a group: one above the largest
\* threshold in norm, one within every positive threshold
ClipGradients == {-2, 1}

\* what SAC's checkpoint manager finds: nothing, or saved parameters of the
\* actor and of the two critics
ClipCheckpoints ==
    {[found |-> FALSE, actor |-> 0, critic |-> <<0, 0>>],
     [found |-> TRUE, actor |-> 5, critic |-> <<5, 5>>]}

\* SAC.__init__ ends in self.load(); TD3.__init__ loads nothing
InitClip ==
    \E kind \in {"SAC", "TD3"}, qvs \in {0, 1}, pi \in {0, 1}, alpha \in BOOLEAN,
       checkpoint \in ClipCheckpoints :
        /\ kind = "TD3" => ~alpha /\ ~checkpoint.found
        /\ critic = SAC_load(ActorCritic(kind, qvs, pi, alpha), checkpoint)

\* SAC._update, from the losses on: _update_parameters; the soft update
\* of the target critics that follows it touches no gradient and no live
\* parameter
SACUpdate ==
    /\ critic.kind = "SAC"
    /\ critic.updates < MaxOptim
    /\ \E g \in [Groups -> ClipGradients] : critic' = SAC_update_parameters(critic, g)
    /\ UNCHANGED exceptClip

\* TD3._update: the critic update and, when the step counter says the policy
\* is due, the actor update; the target updates that follow it touch no
\* gradient and no live parameter
TD3Update ==
    /\ critic.kind = "TD3"
    /\ critic.updates < MaxOptim
    /\ \E g \in [Groups -> ClipGradients], due \in BOOLEAN :
           LET s0 == [critic EXCEPT !.steps = <<>>, !.updates = critic.updates + 1]
               s1 == TD3_update_critic(s0, g)
           IN  critic' = IF due THEN TD3_update_actor(s1, g) ELSE s1
    /\ UNCHANGED exceptClip

\* a load call made by the caller after construction.  TD3.load(path) calls
\* torch.load(str), with the type str for the file, which raises before
\* anything is assigned.
LoadClip ==
    /\ \E checkpoint \in ClipCheckpoints :
           critic' = IF critic.kind = "SAC" THEN SAC_load(critic, checkpoint)
                     ELSE critic
    /\ UNCHANGED exceptClip

NextClip == SACUpdate \/ TD3Update \/ LoadClip

\* ------------------------------------------ target networks at construction
\* The networks of a constructed agent.  `params` holds one number per
\* parameter set, at the set's address; `live` and `target` name, pair by
\* pair, the address of a live network and the address of its target;
\* `fresh` keeps the number each parameter set was created with.

\* a network class called on a body (DQNModel, GaussianActor, Critic,
\* DeterministicActor, each half of DoubleCritic, Head.build): a module with
\* a parameter set of its own, at the next address, holding `value`
Module(params, value) == Append(params, value)

\* copy.deepcopy(net): a new parameter set, at the next address, with the
\* values of net
deepcopy(params, net) == Append(params, params[net])

\* net.load_state_dict(state_dict): the values are copied into the
\* parameter set of net, which stays where it is
load_state_dict(params, net, state_dict) == [params EXCEPT ![net] = state_dict]

\* the numbers a newly created parameter set may hold
Initials == {0, 1}

\* SAC.__init__, its networks: self._pi at address 1, the two critics of
\* self._qvs at 2 and 3, the two critics of self._target_qvs at 4 and 5;
\* self.load() copies a found checkpoint's 'actor' and 'critic' into self._pi
\* and self._qvs; then self._target_qvs.load_state_dict(self._qvs.state_dict())
SAC_init(fresh, checkpoint) ==
    LET pi == Module(<<>>, fresh[1])
        qvs == Module(Module(pi, fresh[2]), fresh[3])
        target_qvs == Module(Module(qvs, fresh[4]), fresh[5])
        loaded == IF checkpoint.found
                  THEN load_state_dict(
                           load_state_dict(
                               load_state_dict(target_qvs, 1, checkpoint.actor),
                               2, checkpoint.critic[1]),
                           3, checkpoint.critic[2])
                  ELSE target_qvs
    IN  [kind |-> "SAC",
         params |-> load_state_dict(load_state_dict(loaded, 4, loaded[2]),
                                    5, loaded[3]),
         live |-> <<2, 3>>, target |-> <<4, 5>>,
         loaded |-> checkpoint.found, fresh |-> fresh]

\* DDPG.__init__ of agents/ddpg.py, its networks: self._pi at address 1,
\* self._target_pi at 2, self._qv at 3, self._target_qv at 4; self.load()
\* copies a found checkpoint's 'actor' and 'critic' into self._pi and
\* self._qv; then the two load_state_dict calls on the targets
DDPG_init(fresh, checkpoint) ==
    LET pi == Module(<<>>, fresh[1])
        target_pi == Module(pi, fresh[2])
        qv == Module(target_pi, fresh[3])
        target_qv == Module(qv, fresh[4])
        loaded == IF checkpoint.found
                  THEN load_state_dict(
                           load_state_dict(target_qv, 1, checkpoint.actor),
                           3, checkpoint.critic[1])
                  ELSE target_qv
    IN  [kind |-> "DDPG",
         params |-> load_state_dict(load_state_dict(loaded, 2, loaded[1]),
                                    4, loaded[3]),
         live |-> <<1, 3>>, target |-> <<2, 4>>,
         loaded |-> checkpoint.found, fresh |-> fresh]

\* TD3.__init__ of agents/td3.py, its networks: self._pi at address 1 and
\* self._target_pi at 2, made equal at once, then self._qv at 3 and
\* self._target_qv at 4, made equal at once; no checkpoint is loaded
TD3_init(fresh) ==
    LET pi == Module(<<>>, fresh[1])
        target_pi == Module(pi, fresh[2])
        pi_copied == load_state_dict(target_pi, 2, target_pi[1])
        qv == Module(pi_copied, fresh[3])
        target_qv == Module(qv, fresh[4])
    IN  [kind |-> "TD3",
         params |-> load_state_dict(target_qv, 4, target_qv[3]),
         live |-> <<1, 3>>, target |-> <<2, 4>>,
         loaded |-> FALSE, fresh |-> fresh]

\* DDPG._initialize_networks of agents/dpg/ddpg.py: actor_net at address 1,
\* critic_net at 2, then target_actor_net = deepcopy(actor_net) at 3 and
\* target_critic_net = deepcopy(critic_net) at 4
DDPG_initialize_networks(fresh) ==
    LET actor_net == Module(<<>>, fresh[1])
        critic_net == Module(actor_net, fresh[2])
        target_actor_net == deepcopy(critic_net, 1)
        target_critic_net == deepcopy(target_actor_net, 2)
    IN  [kind |-> "dpg.DDPG", params |-> target_critic_net,
         live |-> <<1, 2>>, target |-> <<3, 4>>,
         loaded |-> FALSE, fresh |-> fresh]

\* TD3._initialize_networks of agents/dpg/td3.py: the networks of
\* DDPG._initialize_networks, then a critic_net of two heads at address 5 and
\* its deepcopy at 6 take the places of 'critic' and 'target_critic'
TD3_initialize_networks(fresh) ==
    LET networks == DDPG_initialize_networks(fresh)
        critic_net == Module(networks.params, fresh[3])
        target_critic_net == deepcopy(critic_net, 5)
    IN  [networks EXCEPT !.kind = "dpg.TD3", !.params = target_critic_net,
                         !.live = <<1, 5>>, !.target = <<3, 6>>]

\* ------------------------------------------- construction as a state machine
\* no agent constructed yet
InitTargets ==
    nets = [kind |-> "none", params |-> <<>>, live |-> <<>>, target |-> <<>>,
            loaded |-> FALSE, fresh |-> <<>>]

ConstructDQN ==
    /\ \E config \in DQNConfigs, initial \in Initials, checkpoint \in Checkpoints :
           LET self == DQN_init(config, initial, checkpoint)
           IN  nets' = [kind |-> "DQN", params |-> self.params,
                        live |-> <<self.qv>>, target |-> <<self.target_qv>>,
                        loaded |-> self.loaded, fresh |-> <<self.initial>>]
    /\ UNCHANGED exceptTargets

ConstructSAC ==
    /\ \E fresh \in [1..5 -> Initials], checkpoint \in ClipCheckpoints :
           nets' = SAC_init(fresh, checkpoint)
    /\ UNCHANGED exceptTargets

ConstructDDPG ==
    /\ \E fresh \in [1..4 -> Initials], checkpoint \in ClipCheckpoints :
           nets' = DDPG_init(fresh, checkpoint)
    /\ UNCHANGED exceptTargets

ConstructTD3 ==
    /\ \E fresh \in [1..4 -> Initials] : nets' = TD3_init(fresh)
    /\ UNCHANGED exceptTargets

\* the base class's constructor calls _initialize_networks of the agent's class
ConstructDpg ==
    /\ \E fresh \in [1..3 -> Initials] :
           nets' \in {DDPG_initialize_networks(fresh), TD3_initialize_networks(fresh)}
    /\ UNCHANGED exceptTargets

NextTargets ==
    ConstructDQN \/ ConstructSAC \/ ConstructDDPG \/ ConstructTD3 \/ ConstructDpg

\* ----------------------------------------------------------- specifications
IdleRing ==
    /\ rb = RingBuffer(1, 1)
    /\ rbRet = NoCall
    /\ rbAdds = 0

IdleMem ==
    /\ mem = ReplayMemory(1, 1, 1, FALSE)
    /\ memRet = NoCall
    /\ added = [k \in FieldIndex |-> <<>>]
    /\ nAdded = [k \in FieldIndex |-> 0]
    /\ addRaised = [k \in FieldIndex |-> FALSE]
    /\ pushes = 0
    /\ raises = 0

IdleRollout ==
    /\ roll = Rollout(1, 1, 1, [num |-> 1, den |-> 1])
    /\ rollRet = NoCall
    /\ rollLog = [calls |-> 0, pushes |-> 0, resets |-> 0, win |-> <<>>]

IdleAlias ==
    /\ heap = ReplayMemory_at(1, 1, 1, FALSE).heap
    /\ hmem = ReplayMemory_at(1, 1, 1, FALSE).self
    /\ held = <<>>
    /\ heldLog = NoneHeld

IdleBackend ==
    /\ TORCH_BACKEND = FALSE
    /\ mems = <<>>
    /\ backRet = NoCall

IdleThreads ==
    /\ cmem = ReplayMemory(1, 1, 1, FALSE)
    /\ pushing = NoPush
    /\ sampling = NoSample
    /\ concRet = NoCall
    /\ concPushes = 0

IdleProjection ==
    proj = [in |-> [atoms_dim |-> 2, v_limit |-> <<0, 2>>,
                    discount |-> [num |-> 1, den |-> 1], reward |-> 0,
                    mask |-> 0, next_probs |-> <<ProbScale, 0>>],
            done |-> FALSE, target |-> <<>>]

IdleAgent ==
    /\ agent = DDPG(1, 1, 0)
    /\ agentLog = [turn |-> "observe", calls |-> 0]

IdleDQN ==
    /\ dqn = DQN_init([grad_norm_value |-> 0, use_noise |-> FALSE,
                       target_update_frequency |-> 1],
                      0, [found |-> FALSE, model |-> 0, step |-> 0])
    /\ dqnLog = NoDQNCalls

IdleClip == critic = ActorCritic("SAC", 0, 0, FALSE)

Init ==
    /\ InitRing /\ InitMem /\ InitRollout /\ InitAlias /\ InitBackend /\ InitThreads
    /\ InitProjection /\ InitAgent /\ InitDQN /\ InitClip /\ InitTargets

Next ==
    \/ NextRing \/ NextMem \/ NextRollout \/ NextAlias \/ NextBackend \/ NextThreads
    \/ Project \/ NextAgent \/ NextDQN \/ NextClip \/ NextTargets

Spec == Init /\ [][Next]_vars

\* one RingBuffer under add, sample and reset
InitSpecRing == InitRing /\ IdleMem /\ IdleRollout /\ IdleAlias /\ IdleBackend /\ IdleThreads
    /\ IdleProjection /\ IdleAgent /\ IdleDQN /\ IdleClip /\ InitTargets

SpecRing == InitSpecRing /\ [][NextRing]_vars

\* one ReplayMemory under push and sample
InitSpecMem == InitMem /\ IdleRing /\ IdleRollout /\ IdleAlias /\ IdleBackend /\ IdleThreads
    /\ IdleProjection /\ IdleAgent /\ IdleDQN /\ IdleClip /\ InitTargets

SpecMem == InitSpecMem /\ [][NextMem]_vars

\* one Rollout under get_transition and reset
InitSpecRollout == InitRollout /\ IdleRing /\ IdleMem /\ IdleAlias /\ IdleBackend /\ IdleThreads
    /\ IdleProjection /\ IdleAgent /\ IdleDQN /\ IdleClip /\ InitTargets

SpecRollout == InitSpecRollout /\ [][NextRollout]_vars

\* one ReplayMemory on the heap, under push and under sample calls whose
\* Batch is kept
InitSpecAlias == InitAlias /\ IdleRing /\ IdleMem /\ IdleRollout /\ IdleBackend /\ IdleThreads
    /\ IdleProjection /\ IdleAgent /\ IdleDQN /\ IdleClip /\ InitTargets

SpecAlias == InitSpecAlias /\ [][NextAlias]_vars

\* several ReplayMemory objects in one process
InitSpecBackend == InitBackend /\ IdleRing /\ IdleMem /\ IdleRollout /\ IdleAlias /\ IdleThreads
    /\ IdleProjection /\ IdleAgent /\ IdleDQN /\ IdleClip /\ InitTargets

SpecBackend == InitSpecBackend /\ [][NextBackend]_vars

\* one ReplayMemory shared by a pushing thread and a sampling thread
InitSpecThreads ==
    /\ InitThreads /\ IdleRing /\ IdleMem /\ IdleRollout /\ IdleAlias /\ IdleBackend
    /\ IdleProjection /\ IdleAgent /\ IdleDQN /\ IdleClip /\ InitTargets

SpecThreads == InitSpecThreads /\ [][NextThreads]_vars

\* the categorical projection of one batch row
InitSpecProjection ==
    /\ InitProjection /\ IdleRing /\ IdleMem /\ IdleRollout /\ IdleAlias /\ IdleBackend
    /\ IdleThreads /\ IdleAgent /\ IdleDQN /\ IdleClip /\ InitTargets

SpecProjection == InitSpecProjection /\ [][Project]_vars

\* one agent with delayed policy updates in its loop of observe and update
InitSpecAgent ==
    /\ InitAgent /\ IdleRing /\ IdleMem /\ IdleRollout /\ IdleAlias /\ IdleBackend
    /\ IdleThreads /\ IdleProjection /\ IdleDQN /\ IdleClip /\ InitTargets

SpecAgent == InitSpecAgent /\ [][NextAgent]_vars

\* one DQN agent under _act and _update calls
InitSpecDQN ==
    /\ InitDQN /\ IdleRing /\ IdleMem /\ IdleRollout /\ IdleAlias /\ IdleBackend
    /\ IdleThreads /\ IdleProjection /\ IdleAgent /\ IdleClip /\ InitTargets

SpecDQN == InitSpecDQN /\ [][NextDQN]_vars

\* one SAC or TD3 agent under update calls
InitSpecClip ==
    /\ InitClip /\ IdleRing /\ IdleMem /\ IdleRollout /\ IdleAlias /\ IdleBackend
    /\ IdleThreads /\ IdleProjection /\ IdleAgent /\ IdleDQN /\ InitTargets

SpecClip == InitSpecClip /\ [][NextClip]_vars

\* agents being constructed, one after the other
InitSpecTargets ==
    /\ InitTargets /\ IdleRing /\ IdleMem /\ IdleRollout /\ IdleAlias /\ IdleBackend
    /\ IdleThreads /\ IdleProjection /\ IdleAgent /\ IdleDQN /\ IdleClip

SpecTargets == InitSpecTargets /\ [][NextTargets]_vars

\* ------------------------------------------------------------------ claims
\* field k of a Batch
BatchField(batch, k) ==
    CASE k = 1 -> batch.state [] k = 2 -> batch.action [] k = 3 -> batch.reward
      [] k = 4 -> batch.next_state [] k = 5 -> batch.done

\* the positions of index i in index list idxs
Positions(idxs, i) == {p \in 1..Len(idxs) : idxs[p] = i}

Sampled == memRet.op = "sample"
Returned == memRet.op = "sample" /\ memRet.raised = "none"

\* C1: after more than `capacity` add calls on a field buffer (the calls that
\* stored a row and the call that raised), the buffer has size = capacity and
\* holds in slots 0..capacity-1 the capacity most recently added rows, oldest
\* first.
C1_KeepsMostRecent ==
    \A k \in FieldIndex :
        nAdded[k] + (IF addRaised[k] THEN 1 ELSE 0) > mem.capacity
            => /\ mem[Fields[k]].size = mem.capacity
               /\ mem[Fields[k]].container = added[k]

\* C2: 0 <= size <= capacity, no add call has ended in the `raise ValueError`
\* branch, and an add of any value that fits the buffer's dimension would
\* return.
C2_SizeWithinCapacity ==
    /\ 0 <= rb.size /\ rb.size <= rb.capacity
    /\ rbRet.op = "add" => rbRet.branch # "else"
    /\ \A value \in AddValues :
           Broadcastable(value, rb.dimension)
               => RingBuffer_add(rb, value).raised = "none"

\* C2 case: an add made on a full buffer returned
C2_Witness ==
    /\ rbRet.op = "add" /\ rbRet.branch = "roll"
    /\ rbAdds > rb.capacity

\* C3: after reset the buffer is empty, size = 0.
C3_ResetEmpties == rbRet.op = "reset" => rb.size = 0

\* C4: a sample call with an index outside [0, size) raises IndexError, and a
\* sample call that returns had all its indices inside [0, size).
C4_SampleChecksIndices ==
    rbRet.op = "sample" =>
        /\ (\E p \in 1..Len(rbRet.idx) : rbRet.idx[p] \notin 0..(rb.size - 1))
               => rbRet.raised = "IndexError"
        /\ rbRet.raised = "none"
               => \A p \in 1..Len(rbRet.idx) : rbRet.idx[p] \in 0..(rb.size - 1)

\* C5: the five field buffers have the same size, the one ReplayMemory.size
\* returns.
C5_SameSize ==
    \A k \in FieldIndex : mem[Fields[k]].size = ReplayMemory_size(mem)

\* C6: a push call that raises leaves the memory as it was before the call.
C6_PushAtomic ==
    [][(pushes' = pushes + 1 /\ memRet'.raised # "none") => mem' = mem]_vars

\* C7: in combined mode with size >= 2, a batch returned for batch_size >= 1
\* has index size - 1 at exactly one position; when no push has raised, the
\* rows at that position are the rows of the transition pushed last.
C7_NewestExactlyOnce ==
    (Returned /\ mem.combined /\ ReplayMemory_size(mem) >= 2
              /\ memRet.batch_size >= 1)
        => /\ Cardinality(Positions(memRet.idxs, ReplayMemory_size(mem) - 1)) = 1
           /\ raises = 0 =>
                \A p \in Positions(memRet.idxs, ReplayMemory_size(mem) - 1) :
                    \A k \in FieldIndex :
                        BatchField(memRet.batch, k)[p] = added[k][Len(added[k])]

\* C7 case: a combined batch of two or more rows drawn from two or more
\* transitions
C7_Witness ==
    /\ Returned /\ mem.combined
    /\ ReplayMemory_size(mem) >= 2
    /\ memRet.batch_size >= 2
    /\ raises = 0

\* C8: every field of a returned Batch has batch_size rows, in combined and in
\* non-combined mode.
C8_BatchHasKRows ==
    Returned =>
        \A k \in FieldIndex : Len(BatchField(memRet.batch, k)) = memRet.batch_size

\* C8 case: a combined batch of the largest size asked for
C8_Witness ==
    /\ Returned /\ mem.combined
    /\ memRet.batch_size = MaxBatch
    /\ Len(memRet.batch.state) = MaxBatch

\* C9: sample with batch_size >= 1 on an empty memory raises.
C9_EmptySampleRaises ==
    (Sampled /\ ReplayMemory_size(mem) = 0 /\ memRet.batch_size >= 1)
        => memRet.raised # "none"

\* C10: in non-combined mode sample with batch_size >= 1 returns as soon as
\* size >= 1.
C10_UniformSampleReturns ==
    (Sampled /\ ~mem.combined /\ ReplayMemory_size(mem) >= 1
             /\ memRet.batch_size >= 1)
        => memRet.raised = "none"

\* C11: with combined sampling and fewer than 2 stored transitions, every
\* sample call with batch_size >= 1 raises: no Batch is returned.
C11_CombinedNeedsTwo ==
    (Sampled /\ mem.combined /\ ReplayMemory_size(mem) < 2
             /\ memRet.batch_size >= 1)
        => memRet.raised # "none"

\* the discounted sum of the rewards of window win, oldest first, under
\* discount g, as a fraction with denominator g.den ** (Len(win) - 1)
WindowSum(win, g) ==
    LET n == Len(win)
        term[t \in 0..n] ==
            IF t = n THEN 0
            ELSE Pow(g.num, t) * Pow(g.den, n - 1 - t) * win[t + 1].reward[1]
                 + term[t + 1]
    IN  [num |-> term[0], den |-> Pow(g.den, n - 1)]

SameFraction(a, b) == a.num * b.den = b.num * a.den

GotTransition ==
    /\ rollRet.op = "get_transition"
    /\ rollRet.raised = "none"
    /\ rollRet.value.kind = "transition"

\* the entries pushed on roll, by get_transition calls and by push calls
Entries == rollLog.calls + rollLog.pushes

\* C12: on a Rollout that was never reset, a get_transition call returns
\* None while fewer than n entries have been pushed, its own included, and a
\* transition from the n-th entry on; when get_transition is the only method
\* called these are the first n-1 calls and the calls from the n-th on.
\* ready is true exactly when n entries have been pushed.
C12_TransitionFromNthCall ==
    rollLog.resets = 0
        => /\ Rollout_ready(roll) <=> Entries >= roll.capacity
           /\ rollRet.op = "get_transition"
                  => /\ rollRet.raised = "none"
                     /\ rollRet.value.kind = "None" <=> Entries < roll.capacity
                     /\ rollLog.pushes = 0 =>
                            (rollRet.value.kind = "None"
                                 <=> rollLog.calls < roll.capacity)

C12_Witness ==
    /\ rollLog.resets = 0
    /\ rollLog.pushes = 0
    /\ roll.capacity >= 2
    /\ rollLog.calls > roll.capacity
    /\ GotTransition

\* C13: the reward of every returned transition is the sum over t in 0..n-1
\* of gamma^t * r[t], r being the n rewards of the window (the entries pushed
\* since the last reset), oldest first.
C13_DiscountedWindowSum ==
    GotTransition
        => /\ Len(rollLog.win) = roll.capacity
           /\ SameFraction(rollRet.value.reward,
                           WindowSum(rollLog.win, roll.discount_factor))

\* C14: every returned transition has the state and action of the oldest
\* entry of the window, pushed n-1 calls earlier, and the next_state and done
\* passed to the call that returned it.
C14_OldestStateAction ==
    GotTransition
        => /\ Len(rollLog.win) = roll.capacity
           /\ rollRet.value.state = rollLog.win[1].state
           /\ rollRet.value.action = rollLog.win[1].action
           /\ rollRet.value.next_state = rollRet.args.next_state
           /\ rollRet.value.done = rollRet.args.done

\* C15: once reset has been called, while fewer than n entries have been
\* pushed since the last reset, ready is false and get_transition returns
\* None.
C15_ResetClearsWindow ==
    (rollLog.resets > 0 /\ Len(rollLog.win) < roll.capacity)
        => /\ ~Rollout_ready(roll)
           /\ rollRet.op = "get_transition" => rollRet.value.kind = "None"

\* C16: a Batch returned by ReplayMemory.sample keeps, through every later
\* push, the values it had when it was returned.
C16_BatchIsCopy ==
    held # <<>> => BatchValue(heap, held) = heldLog.batch

C16_Witness ==
    /\ held # <<>>
    /\ \E k \in 1..Len(held) : Len(held[k].idx) >= 1
    /\ heldLog.appended
    /\ heldLog.rolled

\* C17: whatever memories were constructed in between, a sample on a
\* memory returns the type of data chosen by the torch_backend argument that
\* memory was constructed with.
C17_BackendPerInstance ==
    (backRet.op = "sample" /\ backRet.raised = "none")
        => backRet.type = RingBuffer_sample_type(mems[backRet.who].torch_backend)

\* row i of a Batch is whole when one pushed transition accounts for all of
\* its fields: each field is that transition's value or still the zeros of a
\* slot never written
WholeRow(self, batch, i) ==
    \E v \in Numbers :
        \A k \in FieldIndex :
            LET dimension == self[Fields[k]].dimension
            IN  BatchField(batch, k)[i]
                    \in {Broadcast(FieldValue(Transition(self, v, 0), k), dimension),
                         Fill(0, dimension)}

\* C18: a sample call running while a push is in progress on another thread
\* returns no row that combines field values of different pushed transitions.
C18_NoTornRow ==
    (concRet.op = "sample" /\ concRet.raised = "none")
        => \A i \in 1..Len(concRet.batch.state) :
               WholeRow(cmem, concRet.batch, i)

\* the atoms of the row whose shifted value lands exactly on support point i
OnGrid(in, i) ==
    {j \in 0..(in.atoms_dim - 1) : Floor(in, j) = Ceil(in, j) /\ Floor(in, j) = i}

\* C19: the projected target probabilities of a row whose atom probabilities
\* sum to 1 sum to 1, and every support point holds at least the whole mass
\* of the atoms that land exactly on it.
C19_ProjectionKeepsMass ==
    proj.done
        => /\ SumOver(proj.target, DOMAIN proj.target)
                  = ProbScale * PositionUnit(proj.in)
           /\ \A i \in 0..(proj.in.atoms_dim - 1) :
                  proj.target[i + 1]
                      >= SumOver([j \in 0..(proj.in.atoms_dim - 1) |->
                                     proj.in.next_probs[j + 1] * PositionUnit(proj.in)],
                                 OnGrid(proj.in, i))

\* a projected row with mass on an atom clamped onto v_max, which lands
\* exactly on the last support point, and mass on an atom between two points
C19_Witness ==
    /\ proj.done
    /\ \E j \in 0..(proj.in.atoms_dim - 1) :
           /\ proj.in.next_probs[j + 1] > 0
           /\ TdTarget(proj.in, j) > proj.in.v_limit[2] * ValueUnit(proj.in)
           /\ j \in OnGrid(proj.in, proj.in.atoms_dim - 1)
    /\ \E j \in 0..(proj.in.atoms_dim - 1) :
           /\ proj.in.next_probs[j + 1] > 0
           /\ Floor(proj.in, j) # Ceil(proj.in, j)

\* C20: with policy_update_frequency > 1, every update call made while
\* TRAINING updates the critic; the actor
\* update and the target synchronization come together, on the update calls
\* whose number, counted from the agent's first update call, is a multiple of
\* policy_update_frequency, and on no other call.
C20_DelayedPolicyUpdate ==
    [][(/\ agentLog.turn = "update"
        /\ Training(agent)
        /\ agent.policy_update_frequency > 1)
          => /\ agent'.did.critic
             /\ agent'.did.actor = agent'.did.target
             /\ agent'.did.actor
                    <=> (agentLog.calls + 1) % agent.policy_update_frequency = 0]_vars

C23_HardUpdatePeriod ==
    [][dqnLog'.updates = dqnLog.updates + 1
          => IF dqnLog.since + 1 = dqn.target_update_frequency
             THEN dqn'.params[dqn'.target_qv] = dqn'.params[dqn'.qv]
             ELSE dqn'.params[dqn'.target_qv] = dqn.params[dqn.target_qv]]_vars

C23_Witness ==
    /\ dqn.target_update_frequency >= 2
    /\ dqnLog.updates = dqn.target_update_frequency
    /\ dqn.did[1] = "sample"
    /\ dqn.params[dqn.target_qv] = dqn.params[dqn.qv]
    /\ dqn.params[dqn.qv] \notin {0, 5}

\* C24: an update runs sample, loss, zero_grad, backward, the gradient
\* clipping exactly when grad_norm_value > 0, the optimizer step and then the
\* target synchronization, in this order.
C24_UpdateOrder ==
    dqn.did[1] = "sample"
        => /\ dqn.did = <<"sample", "loss", "zero_grad", "backward">>
                        \o (IF dqn.grad_norm_value > 0 THEN <<"clip">> ELSE <<>>)
                        \o <<"optim_step", "update_target">>
           /\ \A i, j \in DOMAIN dqn.did :
                  (dqn.did[i] = "update_target" /\ dqn.did[j] = "optim_step") => j < i

C24_Witness ==
    /\ dqn.did[1] = "sample"
    /\ dqn.grad_norm_value > 0
    /\ \E i \in DOMAIN dqn.did : dqn.did[i] = "clip"
    /\ dqnLog.updates >= 2

\* C27: an _act call with train = false returns the greedy action and leaves
\* the epsilon scheduler where it was.
C27_EvalActKeepsEpsilon ==
    [][(dqnLog'.acts = dqnLog.acts + 1 /\ dqn'.did[2] = "eval")
          => /\ dqn'.did[3] = "argmax"
             /\ dqn'.epsilon_step = dqn.epsilon_step]_vars


\* the warm-up thresholds an agent can be configured with
WarmUps == 0..MaxCap

\* C22: no push and no sample call makes ReplayMemory.size smaller, so a
\* memory whose size exceeds the warm-up threshold exceeds it after every
\* later call.
C22_SizeNeverDecreases ==
    [][/\ ReplayMemory_size(mem') >= ReplayMemory_size(mem)
       /\ \A w \in WarmUps :
              ReplayMemory_size(mem) > w => ReplayMemory_size(mem') > w]_vars

\* C22 case: a push made on a full memory of two or more rows returned, and so
\* did a push before the memory was full
C22_Witness ==
    /\ memRet.op = "push" /\ memRet.raised = "none"
    /\ mem.capacity >= 2
    /\ ReplayMemory_size(mem) = mem.capacity
    /\ nAdded[1] > mem.capacity

\* the indices a returned sample call drew with np.random.randint: all of
\* them, or in combined mode all but the appended last one
DrawnIdxs ==
    IF mem.combined
    THEN SubSeq(memRet.idxs, 1, Len(memRet.idxs) - 1)
    ELSE memRet.idxs

\* C26: every index a returned sample call drew lies in [0, size - 2], and
\* in non-combined mode with size >= 2 index size - 1 is at no position of
\* the batch.
C26_DrawnBelowNewest ==
    Returned =>
        /\ \A p \in 1..Len(DrawnIdxs) :
               DrawnIdxs[p] \in 0..(ReplayMemory_size(mem) - 2)
        /\ (~mem.combined /\ ReplayMemory_size(mem) >= 2)
               => Positions(memRet.idxs, ReplayMemory_size(mem) - 1) = {}

\* C26 case: a non-combined batch of two or more rows drawn from a memory of
\* two or more transitions
C26_Witness ==
    /\ Returned /\ ~mem.combined
    /\ ReplayMemory_size(mem) >= 2
    /\ Len(memRet.idxs) >= 2


\* the threshold configured for the parameters an optimizer steps
Threshold(optim) ==
    CASE optim \in {"qv_1_optim", "qv_2_optim", "qv_optim"} -> critic.qvs_grad_norm_value
      [] optim = "pi_optim" -> critic.pi_grad_norm_value
      [] OTHER -> 0

\* C25: an optimizer step made under a positive threshold was preceded by
\* clipping exactly the groups the optimizer steps, so every gradient it used
\* is within the threshold.
C25_ClipsWhatItSteps ==
    \A i \in 1..Len(critic.steps) :
        LET st == critic.steps[i]
        IN  Threshold(st.optim) > 0 =>
                /\ st.clipped = st.stepped
                /\ \A p \in st.stepped :
                       /\ st.grad[p] <= Threshold(st.optim)
                       /\ st.grad[p] >= -Threshold(st.optim)

====
